---- MODULE Spec2Model ----
(***************************************************************************)
(* Match session engine of ft_transcendence: the Game / UserGame tables,   *)
(* the GameService queries, the user-game REST controller, and the         *)
(* matchmaker, room state machine and tick loop that sit on top of them.   *)
(***************************************************************************)
EXTENDS Integers, FiniteSets, Sequences, TLC

\* ---------------------------------------------------------------- bounds
NumPlayers == 3
MaxGames == 2
MaxReq == 2
GracePeriod == 2
MaxScore == 13
FieldW == 2
FieldH == 1
MaxTick == 4
MaxMods == 2
MaxBlocks == 2
MaxTimers == 4
MaxNow == 3
MaxMutes == 2
MaxMsgs == 2
MaxBans == 2

\* ------------------------------------------------------ program constants
ScoreLimit == 11
RoomSlots == 2
\* process.env.USER_CLEARANCE and process.env.ADMIN_CLEARANCE
UserClearance == 1
AdminClearance == 2

Players == 1..NumPlayers
GameIds == 1..MaxGames
ReqIds == 1..MaxReq
NoOne == 0
NoGame == 0
NoInput == -1
NoTimer == 0
Modes == BOOLEAN
Positions == 0..FieldH
\* what ParseIntPipe lets through for the score of PATCH user-game: the
\* integers around the two ends of the score range
ScoreInputs == {-1, 0, ScoreLimit - 1, ScoreLimit, ScoreLimit + 1}

VARIABLES
    games,      \* table Game: set of rows [id, isRanked, status, invitee]
    userGames,  \* table UserGame: set of rows [gameId, userLogin, score]
    nextId,     \* next fresh Game id
    lock,       \* holder of the matchmaker's coordination point, or NoOne
    mm,         \* per player: the enqueue call in progress
    ugReq,      \* per HTTP request: the POST /user-game call in progress
    conn,       \* per player: is the client channel attached
    grace,      \* per player: time elapsed since the connection was lost
    ball,       \* per room: ball position and velocity
    paddle,     \* per room: paddle position of slot 1 and slot 2
    inbox,      \* per player: latest validated paddle input not yet applied
    resp,       \* the response the last step sent to a client: [to, msg, room]
    saved,      \* per player: room, ball and scores seen when the connection was lost
    tick,       \* per room: tick counter of the simulation loop
    seen,       \* per player: tick of the last snapshot delivered to the client
    ended,      \* per room: have the terminal effects of the room been produced
    blocks,     \* table Block: set of rows [blockerLogin, blockedLogin]
    modifiers,  \* table Modifier: set of rows [id, name, desc, code]
    modSeq,     \* next fresh Modifier id
    gameMods,   \* table GameModifierBridge: set of rows [gameId, modifierId]
    blockSeq,   \* next fresh Block id
    blkReq,     \* per HTTP request: the POST /block call in progress
    clearance,  \* per user: the clearance column of table User
    friendships,\* table Friendship: set of rows [sender, receiver, isPending]
    channels,   \* table Channel: set of rows [name, isPrivate, password, owner]
    memberships,\* table Membership: set of rows [userLogin, channelName, isAdmin]
    bans,       \* table Ban: set of rows [id, userLogin, channelName]
    banSeq,     \* next fresh Ban id
    mutes,      \* table Mute: set of rows [id, userLogin, channelName, end]
    muteSeq,    \* next fresh Mute id
    messages,   \* table Message: set of rows [userLogin, channelName, date]
    now,        \* the server's clock
    out,        \* the rows returned by the last query
    mounted,    \* client: is the Game component mounted
    loop,       \* client: the component's state `loop`, a timer id or NoTimer
    cleanup,    \* client: the `loop` captured by the cleanup of the polling effect
    hasFoundGame, \* client: the component's state `hasFoundGame`
    mustGoHome, \* client: the component's state `mustGoHome`
    timers,     \* client: the interval timers that are running
    timerSeq    \* client: next fresh timer id

vars == <<games, userGames, nextId, lock, mm, ugReq, conn, grace, ball, paddle, inbox, resp, saved,
          tick, seen, ended, blocks, modifiers, modSeq, gameMods,
          blockSeq, blkReq, clearance, friendships, channels, memberships, bans, banSeq,
          mutes, muteSeq, messages, now, out,
          mounted, loop, cleanup, hasFoundGame, mustGoHome, timers, timerSeq>>

dbVars == <<games, userGames, nextId>>
simVars == <<ball, paddle, inbox>>
netVars == <<conn, grace, saved>>
roomVars == <<tick, seen, ended>>
modVars == <<modifiers, modSeq, gameMods>>
extVars == <<blocks, modifiers, modSeq, gameMods>>
blockVars == <<blockSeq, blkReq>>
chatVars == <<clearance, friendships, channels, memberships, bans, banSeq, mutes, muteSeq,
              messages, now>>
clientVars == <<mounted, loop, cleanup, hasFoundGame, mustGoHome, timers, timerSeq>>
restVars == <<blockVars, chatVars, out, clientVars>>

\* ------------------------------------------------------------ Game entity
Statuses == {"ongoing", "finished", "abandoned", "waiting", "invitation"}

Terminal == {"finished", "abandoned"}

\* rank of a status along invitation -> waiting -> ongoing -> terminal
StatusRank(s) ==
    CASE s = "invitation" -> 0
      [] s = "waiting" -> 1
      [] s = "ongoing" -> 2
      [] OTHER -> 3

\* ------------------------------------------------------------ table views
GameRow(id) == CHOOSE g \in games : g.id = id

Exists(id) == \E g \in games : g.id = id

\* game.users of `include: [{ all: true }]`
Users(id) == {r.userLogin : r \in {x \in userGames : x.gameId = id}}

\* userGameService.findByGame
findByGame(id) == {r \in userGames : r.gameId = id}

Score(id, u) == (CHOOSE r \in userGames : r.gameId = id /\ r.userLogin = u).score

\* the room's two slots, in login order
Slot1(id) == CHOOSE u \in Users(id) : \A v \in Users(id) : u <= v

Slot2(id) == CHOOSE u \in Users(id) : \A v \in Users(id) : v <= u

Opponent(id, u) == IF Slot1(id) = u THEN Slot2(id) ELSE Slot1(id)

\* ------------------------------------------------------------ GameService
\* findOngoing that looks among the waiting rooms
findOngoing_Waiting(login) ==
    {g \in games : g.status = "waiting" /\ login \in Users(g.id)}

\* findOngoing that also returns the rooms that are over
findOngoing_Over(login) ==
    {g \in games : g.status \in {"ongoing", "finished", "abandoned"} /\ login \in Users(g.id)}

findOngoing(login) ==
    {g \in games : g.status = "ongoing" /\ login \in Users(g.id)}

\* findWaiting with the status filter widened to rooms already being played
findWaiting_Ongoing(isRanked) ==
    {g \in games : g.status \in {"waiting", "ongoing"} /\ g.isRanked = isRanked}

\* findWaiting with a status no row carries
findWaiting_Typo(isRanked) ==
    {g \in games : g.status = "wait" /\ g.isRanked = isRanked}

\* findWaiting without the isRanked filter
findWaiting_AnyMode(isRanked) ==
    {g \in games : g.status = "waiting"}

\* findOne without an order: any matching row may be returned
findWaiting(isRanked) ==
    {g \in games : g.status = "waiting" /\ g.isRanked = isRanked}

\* findPlayable that offers every room with a free slot
findPlayable_Open(login) ==
    {g \in games :
        /\ g.status \in {"waiting", "invitation"}
        /\ \/ login \in Users(g.id)
           \/ g.invitee = login
           \/ Cardinality(Users(g.id)) < 2}

findPlayable(login) ==
    {g \in games :
        /\ g.status \in {"waiting", "invitation"}
        /\ \/ login \in Users(g.id)
           \/ g.invitee = login
           \/ (Cardinality(Users(g.id)) < 2 /\ g.status # "invitation")}

findInvitation(login) ==
    {g \in games : g.status = "invitation" /\ g.invitee = login}

\* rows after GameService.create(gameDto): the Game row and one UserGame row
\* per user of the dto
GamesAfterCreate(id, isRanked, status, invitee) ==
    games \cup {[id |-> id, isRanked |-> isRanked, status |-> status, invitee |-> invitee]}

UserGamesAfterAdd(id, users) ==
    userGames \cup {[gameId |-> id, userLogin |-> u, score |-> 0] : u \in users}

\* rows after GameService.update(gameDto) with a dto carrying a status
GamesAfterUpdate(id, status) ==
    {IF g.id = id THEN [g EXCEPT !.status = status] ELSE g : g \in games}

\* a delete that leaves the Game row in place
GamesAfterDelete_Keep(id) == games

\* rows after GameService.delete(id)
GamesAfterDelete(id) == {g \in games : g.id # id}

UserGamesAfterDelete(id) == {r \in userGames : r.gameId # id}

\* rows after userGameService.update({game, score, user})
UserGamesAfterScore(id, u, score) ==
    {IF r.gameId = id /\ r.userLogin = u THEN [r EXCEPT !.score = score] ELSE r : r \in userGames}

\* ------------------------------------------------------------- simulation
Centre == [x |-> FieldW \div 2, y |-> 0, vx |-> 1, vy |-> 1]

StartPaddles == [s \in 1..RoomSlots |-> 0]

Idle == [pc |-> "idle", mode |-> FALSE, found |-> NoGame]

NoReq == [pc |-> "idle", userLogin |-> NoOne, gameId |-> NoGame]

NoSnap == [room |-> NoGame, ball |-> Centre, score |-> [s \in 1..RoomSlots |-> 0]]

NoResp == [to |-> NoOne, msg |-> "none", room |-> NoGame]

Reply(p, m, g) == [to |-> p, msg |-> m, room |-> g]

\* ------------------------------------------------------------------ Init
NoBlk == [pc |-> "idle", blockerLogin |-> NoOne, blockedLogin |-> NoOne]

\* no POST /block in flight
InitBlockReq ==
    /\ blockSeq = 1
    /\ blkReq = [r \in ReqIds |-> NoBlk]

\* the client's Game component not mounted
InitClient ==
    /\ mounted = FALSE
    /\ loop = NoTimer
    /\ cleanup = NoTimer
    /\ hasFoundGame = FALSE
    /\ mustGoHome = FALSE
    /\ timers = {}
    /\ timerSeq = 1

\* the tables of the chat and of the social graph empty, no request in
\* flight, the client's Game component not mounted
InitRest ==
    /\ InitBlockReq
    /\ clearance = [p \in Players |-> UserClearance]
    /\ friendships = {}
    /\ channels = {}
    /\ memberships = {}
    /\ bans = {}
    /\ banSeq = 1
    /\ mutes = {}
    /\ muteSeq = 1
    /\ messages = {}
    /\ now = 0
    /\ out = {}
    /\ InitClient

\* the match engine with no room and no request
InitEngine ==
    /\ games = {}
    /\ userGames = {}
    /\ nextId = 1
    /\ lock = NoOne
    /\ mm = [p \in Players |-> Idle]
    /\ ugReq = [r \in ReqIds |-> NoReq]
    /\ conn = [p \in Players |-> TRUE]
    /\ grace = [p \in Players |-> 0]
    /\ ball = [g \in GameIds |-> Centre]
    /\ paddle = [g \in GameIds |-> StartPaddles]
    /\ inbox = [p \in Players |-> NoInput]
    /\ resp = NoResp
    /\ saved = [p \in Players |-> NoSnap]
    /\ tick = [g \in GameIds |-> 0]
    /\ seen = [p \in Players |-> 0]
    /\ ended = [g \in GameIds |-> FALSE]
    /\ blocks = {}
    /\ modifiers = {}
    /\ modSeq = 1
    /\ gameMods = {}

Init ==
    /\ InitEngine
    /\ InitRest

\* ------------------------------------------------------------ matchmaker
\* isEligibleToPlay that only looks at the blocks made by the first player
isEligibleToPlay_OneWay(a, b) ==
    ~\E k \in blocks : k.blockerLogin = a /\ k.blockedLogin = b

\* permission collaborator: two players may play together unless one has
\* blocked the other
isEligibleToPlay(a, b) ==
    ~\E k \in blocks :
        \/ (k.blockerLogin = a /\ k.blockedLogin = b)
        \/ (k.blockerLogin = b /\ k.blockedLogin = a)

\* a pending match request of p in a mode is the waiting room p created
Pending(p, isRanked) ==
    {g \in findWaiting(isRanked) : p \in Users(g.id)}

\* enqueue, first half: take the coordination point, refuse a duplicate or a
\* player with an active room, else look for a waiting room of the partition
EnqueueFind(p, isRanked) ==
    /\ mm[p].pc = "idle"
    /\ lock = NoOne
    /\ conn[p]
    /\ IF Pending(p, isRanked) # {}
         THEN /\ resp' = Reply(p, "AlreadyQueued", NoGame)
              /\ UNCHANGED <<lock, mm>>
         ELSE IF findOngoing(p) # {}
         THEN /\ resp' = Reply(p, "AlreadyInMatch", NoGame)
              /\ UNCHANGED <<lock, mm>>
         ELSE /\ lock' = p
              /\ IF findWaiting(isRanked) = {}
                   THEN /\ nextId <= MaxGames
                        /\ mm' = [mm EXCEPT ![p] = [pc |-> "found", mode |-> isRanked, found |-> NoGame]]
                   ELSE \E g \in findWaiting(isRanked) :
                            mm' = [mm EXCEPT ![p] = [pc |-> "found", mode |-> isRanked, found |-> g.id]]
              /\ resp' = NoResp
    /\ UNCHANGED <<dbVars, ugReq, netVars, simVars, roomVars, extVars, restVars>>

\* enqueue, second half: pair with the room found unless its occupant and
\* the player may not play together, or create a waiting room; then release
\* the coordination point
EnqueuePair(p) ==
    /\ mm[p].pc = "found"
    /\ lock = p
    /\ IF mm[p].found = NoGame
         THEN /\ games' = GamesAfterCreate(nextId, mm[p].mode, "waiting", NoOne)
              /\ userGames' = UserGamesAfterAdd(nextId, {p})
              /\ nextId' = nextId + 1
              /\ resp' = Reply(p, "wait", nextId)
         ELSE IF \E u \in Users(mm[p].found) : ~isEligibleToPlay(p, u)
         THEN /\ resp' = Reply(p, "NotEligible", NoGame)
              /\ UNCHANGED dbVars
         ELSE /\ userGames' = UserGamesAfterAdd(mm[p].found, {p})
              /\ games' = GamesAfterUpdate(mm[p].found, "ongoing")
              /\ nextId' = nextId
              /\ resp' = Reply(p, "play", mm[p].found)
    /\ mm' = [mm EXCEPT ![p] = Idle]
    /\ lock' = NoOne
    /\ UNCHANGED <<ugReq, netVars, simVars, roomVars, extVars, restVars>>

\* cancel(player, mode): remove the pending request, under the coordination point
Cancel(p, isRanked) ==
    /\ mm[p].pc = "idle"
    /\ lock = NoOne
    /\ conn[p]
    /\ IF Pending(p, isRanked) = {}
         THEN /\ resp' = Reply(p, "NotQueued", NoGame)
              /\ UNCHANGED <<dbVars, gameMods>>
         ELSE \E g \in Pending(p, isRanked) :
              /\ games' = GamesAfterDelete(g.id)
              /\ userGames' = UserGamesAfterDelete(g.id)
              /\ nextId' = nextId
              /\ gameMods' = {b \in gameMods : b.gameId # g.id}
              /\ resp' = Reply(p, "ok", g.id)
    /\ UNCHANGED <<lock, mm, ugReq, netVars, simVars, roomVars, blocks, modifiers, modSeq, restVars>>

\* room teardown on a terminal state: the simulation state of the rooms is
\* dropped and the inputs of their occupants with it
BallAfterTeardown(ids) == [id \in GameIds |-> IF id \in ids THEN Centre ELSE ball[id]]

PaddleAfterTeardown(ids) ==
    [id \in GameIds |-> IF id \in ids THEN StartPaddles ELSE paddle[id]]

InboxAfterTeardown(ids) ==
    [p \in Players |-> IF \E id \in ids : p \in Users(id) THEN NoInput ELSE inbox[p]]

SavedAfterTeardown(ids) ==
    [p \in Players |-> IF \E id \in ids : p \in Users(id) THEN NoSnap ELSE saved[p]]

TickAfterTeardown(ids) == [id \in GameIds |-> IF id \in ids THEN 0 ELSE tick[id]]

SeenAfterTeardown(ids) ==
    [p \in Players |-> IF \E id \in ids : p \in Users(id) THEN 0 ELSE seen[p]]

EndedAfterTeardown(ids) == [id \in GameIds |-> ended[id] \/ id \in ids]

\* abandonment that records the player who left as the winner
UserGamesAfterAbandon_Quitter(id, quitters) ==
    {IF r.gameId = id /\ r.userLogin \in quitters
       THEN [r EXCEPT !.score = ScoreLimit] ELSE r : r \in userGames}

\* rows after room id is abandoned by the players of `quitters`: an occupant
\* who did not quit is recorded as the winner
UserGamesAfterAbandon(id, quitters) ==
    {IF r.gameId = id /\ r.userLogin \notin quitters
       THEN [r EXCEPT !.score = ScoreLimit] ELSE r : r \in userGames}

\* quit/forfeit: the room becomes abandoned and the opponent is recorded as
\* the winner (the score the match history reads as a victory)
Forfeit(p) ==
    /\ lock = NoOne
    /\ conn[p]
    /\ \E g \in findOngoing(p) :
         /\ games' = GamesAfterUpdate(g.id, "abandoned")
         /\ userGames' = UserGamesAfterAbandon(g.id, {p})
         /\ ball' = BallAfterTeardown({g.id})
         /\ paddle' = PaddleAfterTeardown({g.id})
         /\ inbox' = InboxAfterTeardown({g.id})
         /\ resp' = Reply(p, "ack", g.id)
         /\ saved' = SavedAfterTeardown({g.id})
         /\ tick' = TickAfterTeardown({g.id})
         /\ seen' = SeenAfterTeardown({g.id})
         /\ ended' = EndedAfterTeardown({g.id})
    /\ UNCHANGED <<nextId, lock, mm, ugReq, conn, grace, extVars, restVars>>

NextMatch ==
    \/ \E p \in Players, m \in Modes : EnqueueFind(p, m)
    \/ \E p \in Players : EnqueuePair(p)
    \/ \E p \in Players, m \in Modes : Cancel(p, m)
    \/ \E p \in Players : Forfeit(p)

SpecMatch == Init /\ [][NextMatch]_vars

\* GameService.create(gameDto) with the dto of a room that waits for a second
\* player: {isRanked, status: 'waiting', users: [u]}
GameCreate(isRanked, u) ==
    /\ nextId <= MaxGames
    /\ games' = GamesAfterCreate(nextId, isRanked, "waiting", NoOne)
    /\ userGames' = UserGamesAfterAdd(nextId, {u})
    /\ nextId' = nextId + 1
    /\ resp' = NoResp
    /\ UNCHANGED <<lock, mm, ugReq, netVars, simVars, roomVars, extVars, restVars>>

\* join requests over a table that holds waiting rooms made by create
NextQueue ==
    \/ \E p \in Players, m \in Modes : EnqueueFind(p, m)
    \/ \E p \in Players : EnqueuePair(p)
    \/ \E m \in Modes, u \in Players : GameCreate(m, u)

SpecQueue == Init /\ [][NextQueue]_vars

\* ------------------------------------------------------ invitation mode
\* the invitation p has sent and that is not yet accepted
Invited(p) ==
    {g \in games : g.status = "invitation" /\ p \in Users(g.id)}

\* enqueue(player, invitation, invitee): the invitee must be free, the
\* requester too, and the two must be allowed to play together; the room is
\* made in status invitation with the requester in it
Invite(p, q) ==
    /\ mm[p].pc = "idle"
    /\ lock = NoOne
    /\ conn[p]
    /\ p # q
    /\ IF findOngoing(q) # {}
         THEN /\ resp' = Reply(p, "InviteeUnavailable", NoGame)
              /\ UNCHANGED dbVars
         ELSE IF findOngoing(p) # {}
         THEN /\ resp' = Reply(p, "AlreadyInMatch", NoGame)
              /\ UNCHANGED dbVars
         ELSE IF ~isEligibleToPlay(p, q)
         THEN /\ resp' = Reply(p, "NotEligible", NoGame)
              /\ UNCHANGED dbVars
         ELSE IF Invited(p) # {}
         THEN /\ resp' = Reply(p, "AlreadyQueued", NoGame)
              /\ UNCHANGED dbVars
         ELSE /\ nextId <= MaxGames
              /\ games' = GamesAfterCreate(nextId, FALSE, "invitation", q)
              /\ userGames' = UserGamesAfterAdd(nextId, {p})
              /\ nextId' = nextId + 1
              /\ resp' = Reply(p, "wait", nextId)
    /\ UNCHANGED <<lock, mm, ugReq, netVars, simVars, roomVars, extVars, restVars>>

\* joinGame(gameId) of the invitee: the invitee attaches as second occupant
\* and the room becomes ongoing, unless one of the two has an active room by
\* now or they may no longer play together
AcceptInvite(q, id) ==
    /\ mm[q].pc = "idle"
    /\ lock = NoOne
    /\ conn[q]
    /\ \E g \in findInvitation(q) : g.id = id
    /\ IF \E u \in Users(id) \cup {q} : findOngoing(u) # {}
         THEN /\ resp' = Reply(q, "AlreadyInMatch", NoGame)
              /\ UNCHANGED dbVars
         ELSE IF \E u \in Users(id) : ~isEligibleToPlay(q, u)
         THEN /\ resp' = Reply(q, "NotEligible", NoGame)
              /\ UNCHANGED dbVars
         ELSE /\ userGames' = UserGamesAfterAdd(id, {q})
              /\ games' = GamesAfterUpdate(id, "ongoing")
              /\ nextId' = nextId
              /\ resp' = Reply(q, "play", id)
    /\ UNCHANGED <<lock, mm, ugReq, netVars, simVars, roomVars, extVars, restVars>>

\* rows of Block after blockService.create: a fresh id per row
BlocksAfterCreate(blockerLogin, blockedLogin) ==
    blocks \cup {[id |-> blockSeq, blockerLogin |-> blockerLogin, blockedLogin |-> blockedLogin]}

\* blockService.findBlockByBothLogin: the rows a findOne can return
findBlockByBothLogin(blockerLogin, blockedLogin) ==
    {k \in blocks : k.blockerLogin = blockerLogin /\ k.blockedLogin = blockedLogin}

\* POST /block answered with the created block: a user blocks another one,
\* no other request between the lookup and the write
BlockCreate(blockerLogin, blockedLogin) ==
    /\ blockSeq <= MaxBlocks
    /\ blockerLogin # blockedLogin
    /\ findBlockByBothLogin(blockerLogin, blockedLogin) = {}
    /\ blocks' = BlocksAfterCreate(blockerLogin, blockedLogin)
    /\ blockSeq' = blockSeq + 1
    /\ resp' = NoResp
    /\ UNCHANGED <<dbVars, lock, mm, ugReq, netVars, simVars, roomVars, modVars>>
    /\ UNCHANGED <<blkReq, chatVars, out, clientVars>>

\* DELETE /block/:login/:blocked answered with the number of deleted rows
BlockDelete(blockerLogin, blockedLogin) ==
    /\ \E k \in findBlockByBothLogin(blockerLogin, blockedLogin) : blocks' = blocks \ {k}
    /\ resp' = NoResp
    /\ UNCHANGED <<dbVars, lock, mm, ugReq, netVars, simVars, roomVars, modVars, restVars>>

\* invitations, their acceptance, and the forfeit that ends a room
NextInvite ==
    \/ \E p \in Players, q \in Players : Invite(p, q)
    \/ \E q \in Players, id \in GameIds : AcceptInvite(q, id)
    \/ \E p \in Players : Forfeit(p)

SpecInvite == Init /\ [][NextInvite]_vars

\* ranked joins and invitations among players who block and unblock each
\* other
NextElig ==
    \/ \E p \in Players : EnqueueFind(p, TRUE)
    \/ \E p \in Players : EnqueuePair(p)
    \/ \E p \in Players, q \in Players : Invite(p, q)
    \/ \E q \in Players, id \in GameIds : AcceptInvite(q, id)
    \/ \E a \in Players, b \in Players : BlockCreate(a, b)
    \/ \E a \in Players, b \in Players : BlockDelete(a, b)

SpecElig == Init /\ [][NextElig]_vars

\* ------------------------------------------------- room: tick loop, inbox
\* paddleInput(position): kept for the next tick when it lies in the
\* playfield, dropped otherwise
PaddleInput(p, pos) ==
    /\ conn[p]
    /\ findOngoing(p) # {}
    /\ inbox' = IF pos \in Positions THEN [inbox EXCEPT ![p] = pos] ELSE inbox
    /\ resp' = NoResp
    /\ UNCHANGED <<dbVars, lock, mm, ugReq, netVars, ball, paddle, roomVars, extVars, restVars>>

\* step 1 of a tick in which an input of either occupant moves both paddles
PaddlesAfterInput_Both(id) ==
    [s \in 1..RoomSlots |->
        IF inbox[Slot1(id)] # NoInput THEN inbox[Slot1(id)]
        ELSE IF inbox[Slot2(id)] # NoInput THEN inbox[Slot2(id)]
        ELSE paddle[id][s]]

\* step 1 of a tick: the paddles after the latest input of each slot
PaddlesAfterInput(id) ==
    [s \in 1..RoomSlots |->
        LET u == IF s = 1 THEN Slot1(id) ELSE Slot2(id)
        IN IF inbox[u] = NoInput THEN paddle[id][s] ELSE inbox[u]]

\* vertical move with reflection on the top and bottom walls
MoveY(b) ==
    IF b.y + b.vy \in Positions
      THEN [b EXCEPT !.y = b.y + b.vy]
      ELSE [b EXCEPT !.y = b.y - b.vy, !.vy = -b.vy]

\* the slot that scores at this tick, or 0: the ball leaves by a side whose
\* paddle is not on the ball's row
Scorer(b, pad) ==
    IF b.x + b.vx < 0 /\ pad[1] # b.y THEN 2
    ELSE IF b.x + b.vx > FieldW /\ pad[2] # b.y THEN 1
    ELSE 0

\* step 2 of a tick: the ball after the move, a paddle reflection, or the
\* reset to the centre served towards the slot that conceded
BallAfterTick(b, pad) ==
    IF Scorer(b, pad) = 2 THEN [Centre EXCEPT !.vx = -1]
    ELSE IF Scorer(b, pad) = 1 THEN [Centre EXCEPT !.vx = 1]
    ELSE IF b.x + b.vx < 0 \/ b.x + b.vx > FieldW
      THEN [MoveY(b) EXCEPT !.x = b.x - b.vx, !.vx = -b.vx]
      ELSE [MoveY(b) EXCEPT !.x = b.x + b.vx]

\* the modifiers room id refers to
ActiveModifiers(id) == {b.modifierId : b \in {x \in gameMods : x.gameId = id}}

\* the ball is sent back by a paddle at this tick
PaddleReturn(b, pad) ==
    Scorer(b, pad) = 0 /\ (b.x + b.vx < 0 \/ b.x + b.vx > FieldW)

\* a perturbation that depends on whether an occupant of the room is away
BallAfterModifiers_Away(id, b, pad) ==
    IF (\E u \in Users(id) : ~conn[u]) /\ PaddleReturn(b, pad)
      THEN [BallAfterTick(b, pad) EXCEPT !.vy = -BallAfterTick(b, pad).vy]
      ELSE BallAfterTick(b, pad)

\* step 2 of a tick with the active modifiers: a ball sent back by a paddle
\* has its vertical velocity perturbed when the room has a modifier
BallAfterModifiers(id, b, pad) ==
    IF ActiveModifiers(id) # {} /\ PaddleReturn(b, pad)
      THEN [BallAfterTick(b, pad) EXCEPT !.vy = -BallAfterTick(b, pad).vy]
      ELSE BallAfterTick(b, pad)

\* the occupants of room id whose grace period ends with this tick
Expired(id) == {u \in Users(id) : ~conn[u] /\ grace[u] + 1 >= GracePeriod}

\* the grace timers after one more tick of room id
GraceAfterTick(id) ==
    [p \in Players |->
        IF p \in Users(id) /\ ~conn[p] /\ grace[p] < GracePeriod
          THEN grace[p] + 1 ELSE grace[p]]

\* step 4 of a tick: the snapshot of tick t goes to the occupants whose
\* channel is attached
SeenAfterSnapshot(id, t) ==
    [p \in Players |-> IF p \in Users(id) /\ conn[p] THEN t ELSE seen[p]]

\* one tick of an ongoing room: grace period of a lost occupant, inputs,
\* ball, score, score limit
Tick(id) ==
    /\ Exists(id)
    /\ GameRow(id).status = "ongoing"
    /\ Cardinality(Users(id)) = RoomSlots
    /\ \A u \in Users(id) : Score(id, u) < MaxScore
    /\ tick[id] < MaxTick
    /\ grace' = GraceAfterTick(id)
    /\ inbox' = InboxAfterTeardown({id})
    /\ IF Expired(id) # {}
         THEN /\ games' = GamesAfterUpdate(id, "abandoned")
              /\ userGames' = UserGamesAfterAbandon(id, Expired(id))
              /\ ball' = BallAfterTeardown({id})
              /\ paddle' = PaddleAfterTeardown({id})
              /\ saved' = SavedAfterTeardown({id})
              /\ tick' = TickAfterTeardown({id})
              /\ seen' = SeenAfterTeardown({id})
              /\ ended' = EndedAfterTeardown({id})
              /\ resp' = Reply(NoOne, "gameOver", id)
         ELSE LET pad == PaddlesAfterInput(id)
                  sc == Scorer(ball[id], pad)
                  who == IF sc = 1 THEN Slot1(id) ELSE Slot2(id)
                  over == sc # 0 /\ Score(id, who) + 1 >= ScoreLimit
              IN /\ userGames' = IF sc = 0 THEN userGames
                                 ELSE UserGamesAfterScore(id, who, Score(id, who) + 1)
                 /\ IF over
                      THEN /\ games' = GamesAfterUpdate(id, "finished")
                           /\ ball' = BallAfterTeardown({id})
                           /\ paddle' = PaddleAfterTeardown({id})
                           /\ saved' = SavedAfterTeardown({id})
                           /\ tick' = TickAfterTeardown({id})
                           /\ seen' = SeenAfterTeardown({id})
                           /\ ended' = EndedAfterTeardown({id})
                           /\ resp' = Reply(NoOne, "gameOver", id)
                      ELSE /\ games' = games
                           /\ ball' = [ball EXCEPT ![id] = BallAfterModifiers(id, ball[id], pad)]
                           /\ paddle' = [paddle EXCEPT ![id] = pad]
                           /\ saved' = saved
                           /\ tick' = [tick EXCEPT ![id] = tick[id] + 1]
                           /\ seen' = SeenAfterSnapshot(id, tick[id] + 1)
                           /\ ended' = ended
                           /\ resp' = NoResp
    /\ UNCHANGED <<nextId, lock, mm, ugReq, conn, extVars, restVars>>

\* ------------------------------------------------ disconnect / reconnect
\* what a room shows at one instant: its id, ball and the scores of its slots
Snapshot(id) ==
    [room |-> id, ball |-> ball[id],
     score |-> [s \in 1..RoomSlots |-> Score(id, IF s = 1 THEN Slot1(id) ELSE Slot2(id))]]

\* the client channel of an occupant of an ongoing room is lost: the grace
\* timer starts
Disconnect(p) ==
    /\ conn[p]
    /\ mm[p].pc = "idle"
    /\ \E g \in findOngoing(p) :
         /\ Cardinality(Users(g.id)) = RoomSlots
         /\ saved' = [saved EXCEPT ![p] = Snapshot(g.id)]
    /\ conn' = [conn EXCEPT ![p] = FALSE]
    /\ grace' = [grace EXCEPT ![p] = 0]
    /\ inbox' = [inbox EXCEPT ![p] = NoInput]
    /\ resp' = NoResp
    /\ UNCHANGED <<dbVars, lock, mm, ugReq, ball, paddle, roomVars, extVars, restVars>>

\* a reconnect that serves the ball again from the centre
Reconnect_Restart(p) ==
    /\ ~conn[p]
    /\ conn' = [conn EXCEPT ![p] = TRUE]
    /\ grace' = [grace EXCEPT ![p] = 0]
    /\ saved' = [saved EXCEPT ![p] = NoSnap]
    /\ IF findOngoing(p) # {}
         THEN \E g \in findOngoing(p) :
                  /\ resp' = Reply(p, "redirect", g.id)
                  /\ ball' = [ball EXCEPT ![g.id] = Centre]
         ELSE /\ resp' = Reply(p, "gameOver", NoGame)
              /\ ball' = ball
    /\ UNCHANGED <<dbVars, lock, mm, ugReq, paddle, inbox, roomVars, extVars, restVars>>

\* a reconnect that starts the tick counter of the room again
Reconnect_Rewind(p) ==
    /\ ~conn[p]
    /\ conn' = [conn EXCEPT ![p] = TRUE]
    /\ grace' = [grace EXCEPT ![p] = 0]
    /\ saved' = [saved EXCEPT ![p] = NoSnap]
    /\ IF findOngoing(p) # {}
         THEN \E g \in findOngoing(p) :
                  /\ resp' = Reply(p, "redirect", g.id)
                  /\ tick' = [tick EXCEPT ![g.id] = 0]
         ELSE /\ resp' = Reply(p, "gameOver", NoGame)
              /\ tick' = tick
    /\ UNCHANGED <<dbVars, lock, mm, ugReq, simVars, seen, ended, extVars, restVars>>

\* the player comes back: redirected to the room still held for him, or
\* told the outcome when the grace period has elapsed
Reconnect(p) ==
    /\ ~conn[p]
    /\ conn' = [conn EXCEPT ![p] = TRUE]
    /\ grace' = [grace EXCEPT ![p] = 0]
    /\ saved' = [saved EXCEPT ![p] = NoSnap]
    /\ IF findOngoing(p) # {}
         THEN \E g \in findOngoing(p) : resp' = Reply(p, "redirect", g.id)
         ELSE resp' = Reply(p, "gameOver", NoGame)
    /\ UNCHANGED <<dbVars, lock, mm, ugReq, simVars, roomVars, extVars, restVars>>

\* an ongoing room with both players attached, as pairing leaves it
InitLife ==
    /\ games = {[id |-> 1, isRanked |-> TRUE, status |-> "ongoing", invitee |-> NoOne]}
    /\ userGames = {[gameId |-> 1, userLogin |-> u, score |-> 0] : u \in 1..RoomSlots}
    /\ nextId = 2
    /\ lock = NoOne
    /\ mm = [p \in Players |-> Idle]
    /\ ugReq = [r \in ReqIds |-> NoReq]
    /\ conn = [p \in Players |-> TRUE]
    /\ grace = [p \in Players |-> 0]
    /\ ball = [g \in GameIds |-> Centre]
    /\ paddle = [g \in GameIds |-> StartPaddles]
    /\ inbox = [p \in Players |-> NoInput]
    /\ resp = Reply(RoomSlots, "play", 1)
    /\ saved = [p \in Players |-> NoSnap]
    /\ tick = [g \in GameIds |-> 0]
    /\ seen = [p \in Players |-> 0]
    /\ ended = [g \in GameIds |-> FALSE]
    /\ blocks = {}
    /\ modifiers = {}
    /\ modSeq = 1
    /\ gameMods = {}
    /\ InitRest

NextLife ==
    \/ \E id \in GameIds : Tick(id)
    \/ \E p \in Players, pos \in 0..(FieldH + 1) : PaddleInput(p, pos)
    \/ \E p \in Players : Disconnect(p)
    \/ \E p \in Players : Reconnect(p)
    \/ \E p \in Players : Forfeit(p)

SpecLife == InitLife /\ [][NextLife]_vars

\* ---------------------------------------------- REST: modifier controller
NameInputs == {"", "a", "b"}

DescInputs == {"", "d"}

CodeInputs == {"", "c", "e"}

\* POST /modifier with body name, desc, code
ModifierCreate(name, desc, code) ==
    /\ ~(name = "" \/ desc = "" \/ code = "")
    /\ ~\E m \in modifiers : m.name = name
    /\ modSeq <= MaxMods
    /\ modifiers' = modifiers \cup {[id |-> modSeq, name |-> name, desc |-> desc, code |-> code]}
    /\ modSeq' = modSeq + 1
    /\ resp' = NoResp
    /\ UNCHANGED <<dbVars, lock, mm, ugReq, netVars, simVars, roomVars, blocks, gameMods, restVars>>

\* DELETE /modifier/:id; the rows of the bridge table go with the modifier
ModifierDelete(id) ==
    /\ \E m \in modifiers : m.id = id
    /\ modifiers' = {m \in modifiers : m.id # id}
    /\ gameMods' = {b \in gameMods : b.modifierId # id}
    /\ resp' = NoResp
    /\ UNCHANGED <<dbVars, lock, mm, ugReq, netVars, simVars, roomVars, blocks, modSeq, restVars>>

\* an ongoing room with both players attached, one modifier in the
\* registry, and the room made with or without it
InitMod ==
    /\ games = {[id |-> 1, isRanked |-> TRUE, status |-> "ongoing", invitee |-> NoOne]}
    /\ userGames = {[gameId |-> 1, userLogin |-> u, score |-> 0] : u \in 1..RoomSlots}
    /\ nextId = 2
    /\ lock = NoOne
    /\ mm = [p \in Players |-> Idle]
    /\ ugReq = [r \in ReqIds |-> NoReq]
    /\ conn = [p \in Players |-> TRUE]
    /\ grace = [p \in Players |-> 0]
    /\ ball = [g \in GameIds |-> Centre]
    /\ paddle = [g \in GameIds |-> StartPaddles]
    /\ inbox = [p \in Players |-> NoInput]
    /\ resp = Reply(RoomSlots, "play", 1)
    /\ saved = [p \in Players |-> NoSnap]
    /\ tick = [g \in GameIds |-> 0]
    /\ seen = [p \in Players |-> 0]
    /\ ended = [g \in GameIds |-> FALSE]
    /\ blocks = {}
    /\ modifiers = {[id |-> 1, name |-> "a", desc |-> "d", code |-> "c"]}
    /\ modSeq = 2
    /\ gameMods \in SUBSET {[gameId |-> 1, modifierId |-> 1]}
    /\ InitRest

\* the tick loop of a room with its inputs and the loss and return of its
\* occupants' channels
NextSim ==
    \/ \E id \in GameIds : Tick(id)
    \/ \E p \in Players, pos \in 0..(FieldH + 1) : PaddleInput(p, pos)
    \/ \E p \in Players : Disconnect(p)
    \/ \E p \in Players : Reconnect(p)

SpecSim == InitMod /\ [][NextSim]_vars

\* the modifier interface next to a room that is played and ends
NextMod ==
    \/ \E n \in NameInputs, d \in DescInputs, c \in CodeInputs : ModifierCreate(n, d, c)
    \/ \E id \in 1..MaxMods : ModifierDelete(id)
    \/ \E id \in GameIds : Tick(id)
    \/ \E p \in Players : Forfeit(p)

SpecMod == InitMod /\ [][NextMod]_vars

\* ------------------------------------------- REST: user-game controller
\* POST /user-game, up to the 'Game is full' and 'User already in game'
\* checks: the user and the game exist and the rows read by findByGame pass
UserGameCheck(r, userLogin, gameId) ==
    /\ ugReq[r].pc = "idle"
    /\ userLogin \in Players
    /\ Exists(gameId)
    /\ ~(Cardinality(findByGame(gameId)) >= 2)
    /\ ~(\E ug \in findByGame(gameId) : ug.userLogin = userLogin)
    /\ ugReq' = [ugReq EXCEPT ![r] = [pc |-> "create", userLogin |-> userLogin, gameId |-> gameId]]
    /\ resp' = NoResp
    /\ UNCHANGED <<dbVars, lock, mm, netVars, simVars, roomVars, extVars, restVars>>

\* POST /user-game, the write that follows the checks:
\* userGameService.create({game, user, score: 0}); the table holds one row
\* per (game, user) and a row needs its game
UserGameWrite(r) ==
    /\ ugReq[r].pc = "create"
    /\ userGames' =
         IF Exists(ugReq[r].gameId)
            /\ ~(\E ug \in findByGame(ugReq[r].gameId) : ug.userLogin = ugReq[r].userLogin)
           THEN UserGamesAfterAdd(ugReq[r].gameId, {ugReq[r].userLogin})
           ELSE userGames
    /\ ugReq' = [ugReq EXCEPT ![r] = NoReq]
    /\ resp' = NoResp
    /\ UNCHANGED <<games, nextId, lock, mm, netVars, simVars, roomVars, extVars, restVars>>

\* PATCH /user-game/game/:id/player/:login with a body score
UserGameUpdate(id, login, score) ==
    /\ login \in Players
    /\ Exists(id)
    /\ \E ug \in findByGame(id) : ug.userLogin = login
    /\ userGames' = UserGamesAfterScore(id, login, score)
    /\ resp' = NoResp
    /\ UNCHANGED <<games, nextId, lock, mm, ugReq, netVars, simVars, roomVars, extVars, restVars>>

\* GameService.update(gameDto) with a dto that carries a status
GameUpdate(id, status) ==
    /\ Exists(id)
    /\ games' = GamesAfterUpdate(id, status)
    /\ resp' = NoResp
    /\ UNCHANGED <<userGames, nextId, lock, mm, ugReq, netVars, simVars, roomVars, extVars, restVars>>

\* join requests and POST /user-game requests, interleaved
NextJoin ==
    \/ \E p \in Players, m \in Modes : EnqueueFind(p, m)
    \/ \E p \in Players : EnqueuePair(p)
    \/ \E r \in ReqIds, u \in Players, id \in GameIds : UserGameCheck(r, u, id)
    \/ \E r \in ReqIds : UserGameWrite(r)

SpecJoin == Init /\ [][NextJoin]_vars

\* a running room, its tick loop, and the REST updates of its rows
NextAdmin ==
    \/ \E id \in GameIds : Tick(id)
    \/ \E p \in Players, pos \in 0..(FieldH + 1) : PaddleInput(p, pos)
    \/ \E id \in GameIds, u \in Players, sc \in ScoreInputs : UserGameUpdate(id, u, sc)
    \/ \E id \in GameIds, st \in Statuses : GameUpdate(id, st)

SpecAdmin == InitLife /\ [][NextAdmin]_vars

\* ------------------------------------------------- REST: friendship
\* UNCHANGED of everything the match engine owns
engineVars == <<dbVars, lock, mm, ugReq, netVars, simVars, roomVars, extVars>>

\* friendshipService.findByBothFriends: the row between two users, whoever
\* sent it
findByBothFriends(loginA, loginB) ==
    {f \in friendships : {f.sender, f.receiver} = {loginA, loginB}}

\* ClearanceGuard(clearanceNeeded).canActivate for a request with a valid
\* token
ClearanceGuard(needed, requester) ==
    IF clearance[requester] < needed THEN "Forbidden" ELSE "granted"

\* AdminInvitedUserGuard.canActivate for a request with a valid token. The
\* verified user is bound to an inner `user`; the `user` the receiver is
\* compared with is the outer one, which is never assigned, and no receiver
\* column equals it. Without a friendship row the read of its dataValues
\* throws.
AdminInvitedUserGuard(requester, loginA, loginB) ==
    IF clearance[requester] < AdminClearance THEN "Forbidden"
    ELSE IF findByBothFriends(loginA, loginB) = {} THEN "InternalServerError"
    ELSE IF \E f \in findByBothFriends(loginA, loginB) : f.receiver = NoOne THEN "granted"
    ELSE "Forbidden"

\* AdminInvitedUserGuard.canActivate run on a request
CanActivateInvited(requester, loginA, loginB) ==
    /\ resp' = Reply(requester, AdminInvitedUserGuard(requester, loginA, loginB), NoGame)
    /\ UNCHANGED <<engineVars, blockVars, chatVars, out, clientVars>>

\* rows of Friendship after friendshipService.update({isPending: false, ...})
FriendshipsAfterAccept(loginA, loginB) ==
    {IF f \in findByBothFriends(loginA, loginB) THEN [f EXCEPT !.isPending = FALSE] ELSE f :
        f \in friendships}

\* PATCH /friendship/:loginA/:loginB behind ClearanceGuard(CLEARANCE_ADMIN)
FriendshipUpdate(requester, loginA, loginB) ==
    /\ IF ClearanceGuard(AdminClearance, requester) # "granted"
         THEN /\ resp' = Reply(requester, ClearanceGuard(AdminClearance, requester), NoGame)
              /\ UNCHANGED friendships
         ELSE IF findByBothFriends(loginA, loginB) = {}
         THEN /\ resp' = Reply(requester, "NotFound", NoGame)
              /\ UNCHANGED friendships
         ELSE IF \E f \in findByBothFriends(loginA, loginB) : ~f.isPending
         THEN /\ resp' = Reply(requester, "Conflict", NoGame)
              /\ UNCHANGED friendships
         ELSE /\ resp' = Reply(requester, "OK", NoGame)
              /\ friendships' = FriendshipsAfterAccept(loginA, loginB)
    /\ UNCHANGED <<engineVars, blockVars, out, clientVars>>
    /\ UNCHANGED <<clearance, channels, memberships, bans, banSeq, mutes, muteSeq, messages, now>>

\* the rows a Friendship table can hold between two different users
FriendshipRows ==
    {f \in [sender : Players, receiver : Players, isPending : BOOLEAN] : f.sender # f.receiver}

\* users of either clearance and at most one friendship, pending or
\* accepted
InitFriend ==
    /\ InitEngine
    /\ InitBlockReq
    /\ InitClient
    /\ clearance \in [Players -> {UserClearance, AdminClearance}]
    /\ friendships \in {{}} \cup {{f} : f \in FriendshipRows}
    /\ channels = {}
    /\ memberships = {}
    /\ bans = {}
    /\ banSeq = 1
    /\ mutes = {}
    /\ muteSeq = 1
    /\ messages = {}
    /\ now = 0
    /\ out = {}

NextFriend ==
    \/ \E r \in Players, a \in Players, b \in Players : CanActivateInvited(r, a, b)
    \/ \E r \in Players, a \in Players, b \in Players : FriendshipUpdate(r, a, b)

SpecFriend == InitFriend /\ [][NextFriend]_vars

\* ------------------------------------------------- guards: channel users
ChannelNames == {"ca", "cb"}

\* membershipService.findByUserAndChannel
findByUserAndChannel(login, channelName) ==
    {m \in memberships : m.userLogin = login /\ m.channelName = channelName}

\* AdminChannelusersGuard(clearanceNeeded).canActivate for a request with a
\* valid token: the membership looked up is that of the login in the route.
\* userService and membershipService are plain fields of the guard, set by
\* nobody when the guard is built with its constructor: `wired` tells
\* whether the instance got them
AdminChannelusersGuard(needed, requester, login, channelName, wired) ==
    IF ~wired THEN "InternalServerError"
    ELSE IF findByUserAndChannel(login, channelName) # {} THEN "granted"
    ELSE IF clearance[requester] >= needed THEN "granted"
    ELSE "Forbidden"

\* AdminChannelusersGuard.canActivate run on a request
CanActivateChannelusers(needed, requester, login, channelName, wired) ==
    /\ resp' = Reply(requester,
                     AdminChannelusersGuard(needed, requester, login, channelName, wired), NoGame)
    /\ UNCHANGED <<engineVars, blockVars, chatVars, out, clientVars>>

\* the Membership tables over a set of channels, one row at most per user
\* and channel
MembershipTables(chans) ==
    {{[userLogin |-> x[1], channelName |-> x[2], isAdmin |-> (f[x] = "admin")] :
         x \in {y \in Players \X chans : f[y] # "none"}} :
        f \in [Players \X chans -> {"none", "member", "admin"}]}

\* users of either clearance, members or not of channel ca
InitGuard ==
    /\ InitEngine
    /\ InitBlockReq
    /\ InitClient
    /\ clearance \in [Players -> {UserClearance, AdminClearance}]
    /\ friendships = {}
    /\ channels = {}
    /\ memberships \in MembershipTables({"ca"})
    /\ bans = {}
    /\ banSeq = 1
    /\ mutes = {}
    /\ muteSeq = 1
    /\ messages = {}
    /\ now = 0
    /\ out = {}

NextGuard ==
    \E n \in {UserClearance, AdminClearance}, r \in Players, u \in Players,
       c \in ChannelNames, w \in BOOLEAN : CanActivateChannelusers(n, r, u, c, w)

SpecGuard == InitGuard /\ [][NextGuard]_vars

\* ------------------------------------------------- REST: block queries
\* blockService.findBlocksBy: the blocks made by login
findBlocksBy(login) == {k \in blocks : k.blockerLogin = login}

\* blockService.findBlockersOf: the blocks made against login
findBlockersOf(login) == {k \in blocks : k.blockedLogin = login}

\* the logins of the users an answer holds
Logins(users) == {e.login : e \in users}

\* GET /block/of/:login/users, past its guard: the blocker of every row of
\* findBlocksBy(login). Each row comes with its own User object, which the
\* Set keeps apart: the answer has one element per row
FindUsersBlockersOf(login) ==
    /\ out' = {[row |-> k.id, login |-> k.blockerLogin] : k \in findBlocksBy(login)}
    /\ resp' = Reply(login, "of/users", NoGame)
    /\ UNCHANGED <<engineVars, blockVars, chatVars, clientVars>>

\* GET /block/by/:login/users, past its guard: the blocked user of every row
\* of findBlocksBy(login)
FindUsersBlocksBy(login) ==
    /\ out' = {[row |-> k.id, login |-> k.blockedLogin] : k \in findBlocksBy(login)}
    /\ resp' = Reply(login, "by/users", NoGame)
    /\ UNCHANGED <<engineVars, blockVars, chatVars, clientVars>>

\* blocks made and removed one request at a time, and the two user lists
NextBlock ==
    \/ \E a \in Players, b \in Players : BlockCreate(a, b)
    \/ \E a \in Players, b \in Players : BlockDelete(a, b)
    \/ \E l \in Players : FindUsersBlockersOf(l)
    \/ \E l \in Players : FindUsersBlocksBy(l)

SpecBlock == Init /\ [][NextBlock]_vars

\* ------------------------------------------------- REST: block requests
\* POST /block up to the answer of findBlockByBothLogin: refused for a user
\* who blocks himself, answered with nothing when the block exists, and
\* otherwise on its way to blockService.create
BlockPostCheck(r, blockerLogin, blockedLogin) ==
    /\ blkReq[r].pc = "idle"
    /\ IF blockerLogin = blockedLogin
         THEN /\ resp' = Reply(blockerLogin, "Conflict", NoGame)
              /\ UNCHANGED blkReq
         ELSE IF findBlockByBothLogin(blockerLogin, blockedLogin) # {}
         THEN /\ resp' = Reply(blockerLogin, "OK", NoGame)
              /\ UNCHANGED blkReq
         ELSE /\ resp' = NoResp
              /\ blkReq' = [blkReq EXCEPT ![r] = [pc |-> "create",
                                                   blockerLogin |-> blockerLogin,
                                                   blockedLogin |-> blockedLogin]]
    /\ UNCHANGED <<engineVars, blockSeq, chatVars, out, clientVars>>

\* blockService.create of a POST /block whose lookup found no block
BlockPostWrite(r) ==
    /\ blkReq[r].pc = "create"
    /\ blockSeq <= MaxBlocks
    /\ blocks' = BlocksAfterCreate(blkReq[r].blockerLogin, blkReq[r].blockedLogin)
    /\ blockSeq' = blockSeq + 1
    /\ blkReq' = [blkReq EXCEPT ![r] = NoBlk]
    /\ resp' = Reply(blkReq[r].blockerLogin, "Created", NoGame)
    /\ UNCHANGED <<dbVars, lock, mm, ugReq, netVars, simVars, roomVars, modVars>>
    /\ UNCHANGED <<chatVars, out, clientVars>>

\* DELETE /block/:login/:blocked with its answer
BlockDeleteReq(blockerLogin, blockedLogin) ==
    /\ IF findBlockByBothLogin(blockerLogin, blockedLogin) = {}
         THEN /\ resp' = Reply(blockerLogin, "NotFound", NoGame)
              /\ UNCHANGED blocks
         ELSE /\ resp' = Reply(blockerLogin, "OK", NoGame)
              /\ \E k \in findBlockByBothLogin(blockerLogin, blockedLogin) :
                    blocks' = blocks \ {k}
    /\ UNCHANGED <<dbVars, lock, mm, ugReq, netVars, simVars, roomVars, modVars, restVars>>

NextBlockReq ==
    \/ \E r \in ReqIds, a \in Players, b \in Players : BlockPostCheck(r, a, b)
    \/ \E r \in ReqIds : BlockPostWrite(r)
    \/ \E a \in Players, b \in Players : BlockDeleteReq(a, b)

SpecBlockReq == Init /\ [][NextBlockReq]_vars

\* ------------------------------------------------- GameService queries
\* the where clause is { isRanked: true } for isRanked = true and {} otherwise
findByPlayer(login, isRanked) ==
    {g \in games : (isRanked => g.isRanked = isRanked) /\ login \in Users(g.id)}

\* gameService.findByPlayer(login, isRanked) called and answered
FindByPlayer(login, isRanked) ==
    /\ out' = findByPlayer(login, isRanked)
    /\ resp' = Reply(login, "findByPlayer", NoGame)
    /\ UNCHANGED <<engineVars, blockVars, chatVars, clientVars>>

\* gameService.findPlayable(login) called and answered
FindPlayable(login) ==
    /\ out' = findPlayable(login)
    /\ resp' = Reply(login, "findPlayable", NoGame)
    /\ UNCHANGED <<engineVars, blockVars, chatVars, clientVars>>

\* rooms made by create in either mode, and findByPlayer
NextByPlayer ==
    \/ \E m \in Modes, u \in Players : GameCreate(m, u)
    \/ \E l \in Players, m \in Modes : FindByPlayer(l, m)

SpecByPlayer == Init /\ [][NextByPlayer]_vars

\* the first room, made by create or by an invitation, joined through
\* POST /user-game one request at a time, put back to 'waiting' by update,
\* and findPlayable
NextPlayable ==
    \/ \E m \in Modes, u \in Players : nextId = 1 /\ GameCreate(m, u)
    \/ \E p \in Players, q \in Players : nextId = 1 /\ Invite(p, q)
    \/ \E u \in Players, id \in GameIds : UserGameCheck(1, u, id)
    \/ UserGameWrite(1)
    \/ \E id \in GameIds : GameUpdate(id, "waiting")
    \/ \E l \in Players : FindPlayable(l)

SpecPlayable == Init /\ [][NextPlayable]_vars

\* ------------------------------------------------- REST: channel
\* the password of a request body; "" is a body without password
PasswordInputs == {"", "p", "q"}

\* the name of a request; "c-" does not match /^[a-zA-Z0-9]+$/
ChannelNameInputs == ChannelNames \cup {"c-"}

findByName(name) == {c \in channels : c.name = name}

\* channelService.findByPassword: an array of channels
findByPassword(password) == {c \in channels : c.password = password}

\* the truth value JavaScript gives an array, empty or not
Truthy(array) == TRUE

\* POST /channel, past its guard
ChannelCreate(ownerLogin, name, password) ==
    /\ IF password # "" /\ Cardinality(findByPassword(password)) # 0
         THEN /\ resp' = Reply(ownerLogin, "Conflict", NoGame)
              /\ UNCHANGED channels
         ELSE IF name \notin ChannelNames
         THEN /\ resp' = Reply(ownerLogin, "BadRequest", NoGame)
              /\ UNCHANGED channels
         ELSE IF findByName(name) # {}
         THEN /\ resp' = Reply(ownerLogin, "Conflict", NoGame)
              /\ UNCHANGED channels
         ELSE /\ resp' = Reply(ownerLogin, "OK", NoGame)
              /\ channels' = channels \cup
                    {[name |-> name, isPrivate |-> FALSE, password |-> password,
                      owner |-> ownerLogin]}
    /\ UNCHANGED <<engineVars, blockVars, out, clientVars>>
    /\ UNCHANGED <<clearance, friendships, memberships, bans, banSeq, mutes, muteSeq, messages, now>>

\* rows of Channel after channelService.update({name, password})
ChannelsAfterUpdate(name, password) ==
    {IF c.name = name THEN [c EXCEPT !.password = password] ELSE c : c \in channels}

\* PATCH /channel/:name, past its guard; the answer goes to the owner
ChannelUpdate(name, password) ==
    /\ IF findByName(name) = {}
         THEN /\ resp' = Reply(NoOne, "NotFound", NoGame)
              /\ UNCHANGED channels
         ELSE IF \E c \in findByName(name) : c.isPrivate
         THEN /\ resp' = Reply(NoOne, "Forbidden", NoGame)
              /\ UNCHANGED channels
         ELSE IF password # "" /\ Truthy(findByPassword(password))
         THEN /\ resp' = Reply(NoOne, "Conflict", NoGame)
              /\ UNCHANGED channels
         ELSE /\ resp' = Reply(NoOne, "OK", NoGame)
              /\ channels' = ChannelsAfterUpdate(name, password)
    /\ UNCHANGED <<engineVars, blockVars, out, clientVars>>
    /\ UNCHANGED <<clearance, friendships, memberships, bans, banSeq, mutes, muteSeq, messages, now>>

\* no channel, or the private channel cb of user 1
InitChannel ==
    /\ InitEngine
    /\ InitBlockReq
    /\ InitClient
    /\ clearance = [p \in Players |-> UserClearance]
    /\ friendships = {}
    /\ channels \in {{}, {[name |-> "cb", isPrivate |-> TRUE, password |-> "", owner |-> 1]}}
    /\ memberships = {}
    /\ bans = {}
    /\ banSeq = 1
    /\ mutes = {}
    /\ muteSeq = 1
    /\ messages = {}
    /\ now = 0
    /\ out = {}

NextChannel ==
    \/ \E o \in Players, n \in ChannelNameInputs, pw \in PasswordInputs : ChannelCreate(o, n, pw)
    \/ \E n \in ChannelNameInputs, pw \in PasswordInputs : ChannelUpdate(n, pw)

SpecChannel == InitChannel /\ [][NextChannel]_vars

\* ------------------------------------------------- client: Game component
\* the Game component is mounted by a logged-in user: its first render has
\* loop undefined, the polling effect starts an interval and stores its id
\* with setLoop; the cleanup the effect returns holds the loop of the render
\* the effect ran in
Mount ==
    /\ ~mounted
    /\ timerSeq <= MaxTimers
    /\ mounted' = TRUE
    /\ hasFoundGame' = FALSE
    /\ mustGoHome' = FALSE
    /\ cleanup' = NoTimer
    /\ timers' = timers \cup {timerSeq}
    /\ loop' = timerSeq
    /\ timerSeq' = timerSeq + 1
    /\ resp' = NoResp
    /\ UNCHANGED <<engineVars, blockVars, chatVars, out>>

\* the user of the context changes: the cleanup of the polling effect runs,
\* clearInterval on the loop it holds, and the effect runs again
UserChange ==
    /\ mounted
    /\ timerSeq <= MaxTimers
    /\ cleanup' = loop
    /\ timers' = (timers \ {cleanup}) \cup {timerSeq}
    /\ loop' = timerSeq
    /\ timerSeq' = timerSeq + 1
    /\ resp' = NoResp
    /\ UNCHANGED <<engineVars, blockVars, chatVars, out, mounted, hasFoundGame, mustGoHome>>

\* an interval fires: socket.emit("joinWaitRoom", ...)
TimerFire(t) ==
    /\ t \in timers
    /\ resp' = Reply(NoOne, "joinWaitRoom", NoGame)
    /\ UNCHANGED <<engineVars, blockVars, chatVars, out, clientVars>>

\* "startGame" is received: setHasFoundGame(true), and the effect on
\* hasFoundGame calls clearInterval(loop)
StartGame ==
    /\ mounted
    /\ ~hasFoundGame
    /\ hasFoundGame' = TRUE
    /\ timers' = timers \ {loop}
    /\ resp' = NoResp
    /\ UNCHANGED <<engineVars, blockVars, chatVars, out, mounted, loop, cleanup, mustGoHome,
                   timerSeq>>

\* cancelSearch: quitWaitRoom is emitted and acknowledged with res
CancelSearch(res) ==
    /\ mounted
    /\ ~hasFoundGame
    /\ ~mustGoHome
    /\ IF res = 200
         THEN /\ timers' = timers \ {loop}
              /\ mustGoHome' = TRUE
         ELSE UNCHANGED <<timers, mustGoHome>>
    /\ resp' = Reply(NoOne, "quitWaitRoom", NoGame)
    /\ UNCHANGED <<engineVars, blockVars, chatVars, out, mounted, loop, cleanup, hasFoundGame,
                   timerSeq>>

\* the component is unmounted (Navigate, or the user leaves the page): the
\* cleanup of the polling effect runs
Unmount ==
    /\ mounted
    /\ mounted' = FALSE
    /\ timers' = timers \ {cleanup}
    /\ loop' = NoTimer
    /\ cleanup' = NoTimer
    /\ hasFoundGame' = FALSE
    /\ mustGoHome' = FALSE
    /\ resp' = NoResp
    /\ UNCHANGED <<engineVars, blockVars, chatVars, out, timerSeq>>

NextClient ==
    \/ Mount
    \/ UserChange
    \/ \E t \in 1..MaxTimers : TimerFire(t)
    \/ StartGame
    \/ \E res \in {200, 404} : CancelSearch(res)
    \/ Unmount

SpecClient == Init /\ [][NextClient]_vars

\* ------------------------------------------------- REST: mute, message
\* the user that findByLogin('me') returns
MeLogin == 1

ContentInputs == {"", "hi"}

\* muteService.findByLoginAndChannel: the mutes of a user in a channel,
\* ended or not
muteFindByLoginAndChannel(login, channelName) ==
    {m \in mutes : m.userLogin = login /\ m.channelName = channelName}

\* banService.findByLoginAndChannel
banFindByLoginAndChannel(login, channelName) ==
    {b \in bans : b.userLogin = login /\ b.channelName = channelName}

\* time passes
Advance ==
    /\ now < MaxNow
    /\ now' = now + 1
    /\ resp' = NoResp
    /\ UNCHANGED <<engineVars, blockVars, out, clientVars>>
    /\ UNCHANGED <<clearance, friendships, channels, memberships, bans, banSeq, mutes, muteSeq,
                   messages>>

\* POST /mute, past its guard. The owner of the channel and the muted user
\* are two objects, which != tells apart whoever they are
MuteCreate(login, channelName, end) ==
    /\ muteSeq <= MaxMutes
    /\ IF findByName(channelName) = {}
         THEN /\ resp' = Reply(MeLogin, "NotFound", NoGame)
              /\ UNCHANGED <<mutes, muteSeq>>
         ELSE IF findByUserAndChannel(MeLogin, channelName) = {}
                 \/ findByUserAndChannel(login, channelName) = {}
                 \/ (\E m \in findByUserAndChannel(MeLogin, channelName) : ~m.isAdmin)
                 \/ (\E m \in findByUserAndChannel(login, channelName) : m.isAdmin)
         THEN /\ resp' = Reply(MeLogin, "Forbidden", NoGame)
              /\ UNCHANGED <<mutes, muteSeq>>
         ELSE IF \E m \in muteFindByLoginAndChannel(login, channelName) : m.end > now
         THEN /\ resp' = Reply(MeLogin, "Conflict", NoGame)
              /\ UNCHANGED <<mutes, muteSeq>>
         ELSE /\ resp' = Reply(MeLogin, "OK", NoGame)
              /\ mutes' = mutes \cup {[id |-> muteSeq, userLogin |-> login,
                                        channelName |-> channelName, end |-> end]}
              /\ muteSeq' = muteSeq + 1
    /\ UNCHANGED <<engineVars, blockVars, out, clientVars>>
    /\ UNCHANGED <<clearance, friendships, channels, memberships, bans, banSeq, messages, now>>

\* POST /message, past its guard
MessageCreate(content, userLogin, chanName) ==
    /\ Cardinality(messages) < MaxMsgs
    /\ IF findByName(chanName) = {}
         THEN /\ resp' = Reply(userLogin, "NotFound", NoGame)
              /\ UNCHANGED messages
         ELSE IF findByUserAndChannel(userLogin, chanName) = {}
         THEN /\ resp' = Reply(userLogin, "NotMember", NoGame)
              /\ UNCHANGED messages
         ELSE IF Cardinality(banFindByLoginAndChannel(userLogin, chanName)) > 0
         THEN /\ resp' = Reply(userLogin, "Banned", NoGame)
              /\ UNCHANGED messages
         ELSE IF Cardinality(muteFindByLoginAndChannel(userLogin, chanName)) > 0
         THEN /\ resp' = Reply(userLogin, "Muted", NoGame)
              /\ UNCHANGED messages
         ELSE IF content = ""
         THEN /\ resp' = Reply(userLogin, "BadRequest", NoGame)
              /\ UNCHANGED messages
         ELSE /\ resp' = Reply(userLogin, "OK", NoGame)
              /\ messages' = messages \cup
                    {[userLogin |-> userLogin, channelName |-> chanName, date |-> now]}
    /\ UNCHANGED <<engineVars, blockVars, out, clientVars>>
    /\ UNCHANGED <<clearance, friendships, channels, memberships, bans, banSeq, mutes, muteSeq, now>>

\* MessagesManager: canSendMessage as the mute effect sets it from
\* GET /mute/user/:login/channel/:channel
CanSendMessage(login, channelName) ==
    {m \in muteFindByLoginAndChannel(login, channelName) : m.end > now} = {}

\* channel ca owned by the user 'me', who is its admin; the other users
\* members of ca or not; user 3 banned from ca or not
InitMute ==
    /\ InitEngine
    /\ InitBlockReq
    /\ InitClient
    /\ clearance = [p \in Players |-> UserClearance]
    /\ friendships = {}
    /\ channels = {[name |-> "ca", isPrivate |-> FALSE, password |-> "", owner |-> MeLogin]}
    /\ memberships \in {t \in MembershipTables({"ca"}) :
                            \E m \in t : m.userLogin = MeLogin /\ m.isAdmin}
    /\ bans \in {{}, {[id |-> 1, userLogin |-> NumPlayers, channelName |-> "ca"]}}
    /\ banSeq = 2
    /\ mutes = {}
    /\ muteSeq = 1
    /\ messages = {}
    /\ now = 0
    /\ out = {}

NextMute ==
    \/ Advance
    \/ \E u \in Players, c \in ChannelNames, e \in 0..MaxNow : MuteCreate(u, c, e)
    \/ \E t \in ContentInputs, u \in Players, c \in ChannelNames : MessageCreate(t, u, c)

SpecMute == InitMute /\ [][NextMute]_vars

\* ------------------------------------------------- REST: ban
\* channelService.isOwner
isOwner(login, channelName) ==
    \E c \in findByName(channelName) : c.owner = login

\* (await findAdminsByChannel(channel)).includes(user): the rows of one
\* query looked up for the row of another query, never the same object
Includes(channelName, login) == FALSE

\* AdminOwnerAdminGuard and AdminOwnerAdminGuardPost: canActivate
AdminOwnerAdminGuard(requester, channelName) ==
    \/ Includes(channelName, requester)
    \/ clearance[requester] >= AdminClearance
    \/ isOwner(requester, channelName)

\* POST /ban with the requester that the token names
BanCreate(me, login, chann_name) ==
    /\ banSeq <= MaxBans
    /\ IF ~AdminOwnerAdminGuard(me, chann_name)
         THEN /\ resp' = Reply(me, "Forbidden", NoGame)
              /\ UNCHANGED <<bans, banSeq>>
         ELSE IF findByName(chann_name) = {}
                 \/ findByUserAndChannel(me, chann_name) = {}
         THEN /\ resp' = Reply(me, "NotFound", NoGame)
              /\ UNCHANGED <<bans, banSeq>>
         ELSE IF (\E m \in findByUserAndChannel(me, chann_name) : ~m.isAdmin)
                 /\ ~isOwner(me, chann_name)
         THEN /\ resp' = Reply(me, "Forbidden", NoGame)
              /\ UNCHANGED <<bans, banSeq>>
         ELSE IF findByUserAndChannel(login, chann_name) = {}
         THEN /\ resp' = Reply(me, "NotFound", NoGame)
              /\ UNCHANGED <<bans, banSeq>>
         ELSE IF (\E m \in findByUserAndChannel(login, chann_name) : m.isAdmin)
                 /\ ~isOwner(me, chann_name)
         THEN /\ resp' = Reply(me, "Forbidden", NoGame)
              /\ UNCHANGED <<bans, banSeq>>
         ELSE IF Cardinality(banFindByLoginAndChannel(login, chann_name)) > 0
         THEN /\ resp' = Reply(me, "Conflict", NoGame)
              /\ UNCHANGED <<bans, banSeq>>
         ELSE /\ resp' = Reply(me, "OK", NoGame)
              /\ bans' = bans \cup {[id |-> banSeq, userLogin |-> login,
                                     channelName |-> chann_name]}
              /\ banSeq' = banSeq + 1
    /\ UNCHANGED <<engineVars, blockVars, out, clientVars>>
    /\ UNCHANGED <<clearance, friendships, channels, memberships, mutes, muteSeq, messages, now>>

\* DELETE /ban/user/:login/channel/:chann_name with the requester that the
\* token names
BanDelete(me, login, chann_name) ==
    /\ IF ~AdminOwnerAdminGuard(me, chann_name)
         THEN /\ resp' = Reply(me, "Forbidden", NoGame)
              /\ UNCHANGED bans
         ELSE IF findByName(chann_name) = {}
                 \/ banFindByLoginAndChannel(login, chann_name) = {}
                 \/ findByUserAndChannel(me, chann_name) = {}
         THEN /\ resp' = Reply(me, "NotFound", NoGame)
              /\ UNCHANGED bans
         ELSE IF (\E m \in findByUserAndChannel(me, chann_name) : ~m.isAdmin)
                 /\ ~isOwner(me, chann_name)
         THEN /\ resp' = Reply(me, "Forbidden", NoGame)
              /\ UNCHANGED bans
         ELSE /\ resp' = Reply(me, "OK", NoGame)
              /\ bans' = bans \ banFindByLoginAndChannel(login, chann_name)
    /\ UNCHANGED <<engineVars, blockVars, out, clientVars>>
    /\ UNCHANGED <<clearance, friendships, channels, memberships, banSeq, mutes, muteSeq,
                   messages, now>>

\* channel ca with its owner, users of either clearance, each a plain
\* member, an admin or no member of ca, nobody banned
InitBan ==
    /\ InitEngine
    /\ InitBlockReq
    /\ InitClient
    /\ clearance \in [Players -> {UserClearance, AdminClearance}]
    /\ friendships = {}
    /\ channels = {[name |-> "ca", isPrivate |-> FALSE, password |-> "", owner |-> 1]}
    /\ memberships \in MembershipTables({"ca"})
    /\ bans = {}
    /\ banSeq = 1
    /\ mutes = {}
    /\ muteSeq = 1
    /\ messages = {}
    /\ now = 0
    /\ out = {}

NextBan ==
    \/ \E me \in Players, u \in Players, c \in ChannelNames : BanCreate(me, u, c)
    \/ \E me \in Players, u \in Players, c \in ChannelNames : BanDelete(me, u, c)

SpecBan == InitBan /\ [][NextBan]_vars

\* ------------------------------------------------- matchmaking properties
\* the pending requests of a player in a partition, read off the tables
Outstanding(p, isRanked) ==
    {g \in games : g.status = "waiting" /\ g.isRanked = isRanked
                   /\ \E r \in userGames : r.gameId = g.id /\ r.userLogin = p}

Occupants(id) == {r \in userGames : r.gameId = id}

ActiveRooms(p) ==
    {g \in games : g.status = "ongoing"
                   /\ \E r \in userGames : r.gameId = g.id /\ r.userLogin = p}

C8_OneRequest == \A p \in Players, m \in Modes : Cardinality(Outstanding(p, m)) <= 1

C8_Refused ==
    lock = NoOne =>
        \A p \in Players, m \in Modes :
            (Outstanding(p, m) # {} /\ EnqueueFind(p, m)) =>
                /\ resp' = Reply(p, "AlreadyQueued", NoGame)
                /\ UNCHANGED <<games, userGames, nextId, lock, mm>>

C8_AlreadyQueued == [](C8_OneRequest) /\ [][C8_Refused]_vars

C8_Witness ==
    /\ resp.msg = "AlreadyQueued"
    /\ Outstanding(resp.to, TRUE) # {}

\* C9: a player is never an occupant of two active rooms, and an enqueue of
\* a player with an active room is answered AlreadyInMatch and changes nothing
C9_OneActiveRoom == \A p \in Players : Cardinality(ActiveRooms(p)) <= 1

C9_Refused ==
    \A p \in Players, m \in Modes :
        (ActiveRooms(p) # {} /\ EnqueueFind(p, m)) =>
            /\ resp'.msg \in {"AlreadyInMatch", "AlreadyQueued"}
            /\ UNCHANGED <<games, userGames, nextId, lock, mm>>

Blocking(a, b) ==
    \E k \in blocks : {k.blockerLogin, k.blockedLogin} = {a, b}

\* C11: pairing is FIFO within a partition: a player who joins a waiting room
\* joins the oldest waiting room of the partition that he could have joined
\* (rooms are numbered in creation order)
C11_Step ==
    \A p \in Players, g \in games :
        (/\ g.status = "waiting"
         /\ ~\E r \in userGames : r.gameId = g.id /\ r.userLogin = p
         /\ \E r \in userGames' : r.gameId = g.id /\ r.userLogin = p) =>
            ~\E h \in games :
                /\ h.status = "waiting"
                /\ h.isRanked = g.isRanked
                /\ h.id < g.id
                /\ Cardinality(Occupants(h.id)) < RoomSlots
                /\ \A r \in Occupants(h.id) : r.userLogin # p /\ ~Blocking(p, r.userLogin)

C11_Fifo == [][C11_Step]_vars

\* C12: an invitation that names an invitee who occupies an active room is
\* answered InviteeUnavailable and leaves the rooms and their contents as
\* they were
C12_Step ==
    (resp'.to \in Players /\ lock = NoOne) =>
        \A q \in Players :
            (ActiveRooms(q) # {} /\ Invite(resp'.to, q)) =>
                /\ resp'.msg = "InviteeUnavailable"
                /\ resp'.room = NoGame
                /\ UNCHANGED <<games, userGames, nextId>>

C12_InviteeUnavailable == [][C12_Step]_vars

\* an invitation was refused because the invitee is playing
C12_Witness ==
    /\ resp.msg = "InviteeUnavailable"
    /\ ActiveRooms(resp.to) = {}
    /\ \E q \in Players : q # resp.to /\ ActiveRooms(q) # {}

\* C13 as stated: no room ever holds two players of whom one has blocked the
\* other
C13_NeverTogether ==
    \A r1 \in userGames, r2 \in userGames :
        (r1.gameId = r2.gameId /\ r1.userLogin # r2.userLogin) =>
            ~Blocking(r1.userLogin, r2.userLogin)

\* C13 as amended: no step puts a player in a room with a player who has
\* blocked him or whom he has blocked, and the pairing that would do so is
\* answered NotEligible, in the queue and in invitation mode, and changes no
\* room
C13_Step ==
    /\ (userGames' # userGames) =>
          \A r \in userGames' \ userGames, o \in userGames' :
              (o.gameId = r.gameId /\ o.userLogin # r.userLogin) =>
                  ~Blocking(r.userLogin, o.userLogin)
    /\ \A p \in Players :
          (/\ mm[p].pc = "found"
           /\ resp'.to = p
           /\ \E r \in Occupants(mm[p].found) : Blocking(p, r.userLogin)
           /\ EnqueuePair(p)) =>
              /\ resp' = Reply(p, "NotEligible", NoGame)
              /\ UNCHANGED <<games, userGames, nextId>>
    /\ \A p \in Players, q \in Players :
          (/\ resp'.to = p
           /\ Blocking(p, q)
           /\ ActiveRooms(p) = {} /\ ActiveRooms(q) = {}
           /\ Invite(p, q)) =>
              /\ resp' = Reply(p, "NotEligible", NoGame)
              /\ UNCHANGED <<games, userGames, nextId>>
    /\ \A q \in Players, id \in GameIds :
          (/\ resp'.to = q
           /\ \E r \in Occupants(id) : Blocking(q, r.userLogin)
           /\ \A r \in Occupants(id) : ActiveRooms(r.userLogin) = {}
           /\ ActiveRooms(q) = {}
           /\ AcceptInvite(q, id)) =>
              /\ resp' = Reply(q, "NotEligible", NoGame)
              /\ UNCHANGED <<games, userGames, nextId>>

C13_Refused == [][C13_Step]_vars

\* a join was refused because the player waiting in the room and the joining
\* player may not play together, while an invitation is open as well
C13_Witness ==
    /\ resp.msg = "NotEligible"
    /\ \E g \in games :
         /\ g.status = "waiting"
         /\ \E r \in Occupants(g.id) : Blocking(resp.to, r.userLogin)
    /\ \E g \in games : g.status = "invitation"

\* C16: once a room is over it holds no player back: an enqueue is answered
\* AlreadyInMatch only to a player who occupies a room that is being played,
\* and a room that is over keeps no simulation state and no subscriber
C16_EnqueueStep ==
    \A p \in Players :
        resp' = Reply(p, "AlreadyInMatch", NoGame) => ActiveRooms(p) # {}

C16_Torn ==
    \A g \in games :
        g.status \in Terminal =>
            /\ ended[g.id]
            /\ tick[g.id] = 0
            /\ ball[g.id] = Centre
            /\ \A r \in Occupants(g.id) :
                  ActiveRooms(r.userLogin) = {} =>
                      (seen[r.userLogin] = 0 /\ inbox[r.userLogin] = NoInput)

C18_CancelStep ==
    /\ (resp'.to \in Players /\ lock = NoOne /\ lock' = NoOne) =>
          \A m \in Modes :
              Cancel(resp'.to, m) =>
                  IF Outstanding(resp'.to, m) # {}
                    THEN /\ resp'.msg = "ok"
                         /\ \A g \in Outstanding(resp'.to, m) :
                               /\ ~\E h \in games' : h.id = g.id
                               /\ ~\E r \in userGames' : r.gameId = g.id
                         /\ \A h \in games' : h \in games
                         /\ \A r \in userGames' : r \in userGames
                    ELSE /\ resp'.msg = "NotQueued"
                         /\ resp'.room = NoGame
                         /\ UNCHANGED <<games, userGames, nextId>>
    /\ \A id \in GameIds :
          (id < nextId /\ ~\E g \in games : g.id = id) => ~\E h \in games' : h.id = id

C18_IdsUsed == \A g \in games : g.id < nextId

C18_Cancelled == [](C18_IdsUsed) /\ [][C18_CancelStep]_vars

\* a pending request was cancelled and its room is gone
C18_Witness ==
    /\ resp.msg = "ok"
    /\ resp.room < nextId
    /\ ~\E g \in games : g.id = resp.room
    /\ \A m \in Modes : Outstanding(resp.to, m) = {}

\* C10: every player enters a room through a request of the room's
\* partition, and the ranked flag of a room never changes
C10_Step ==
    (userGames' # userGames \/ games' # games) =>
    /\ \A p \in Players, id \in GameIds :
         (~(\E r \in userGames : r.gameId = id /\ r.userLogin = p)
          /\ (\E r \in userGames' : r.gameId = id /\ r.userLogin = p))
            => \E g \in games' : g.id = id /\ g.isRanked = mm[p].mode /\ mm[p].pc = "found"
    /\ \A g \in games, h \in games' : g.id = h.id => g.isRanked = h.isRanked

C10_SamePartition == [][C10_Step]_vars

C10_Witness ==
    /\ \E g \in games :
         g.status = "ongoing" /\ g.isRanked /\ Cardinality(Occupants(g.id)) = RoomSlots
    /\ \E g \in games : g.status = "waiting" /\ ~g.isRanked

\* ---------------------------------------------------- room properties
ScoreOf(id, u) == {r.score : r \in {x \in userGames : x.gameId = id /\ x.userLogin = u}}

\* C1: a room never has more than 2 occupants and no user occupies the
\* same room twice
C1_TwoSlots ==
    /\ \A g \in games : Cardinality(Occupants(g.id)) <= RoomSlots
    /\ \A r1 \in userGames, r2 \in userGames :
         (r1.gameId = r2.gameId /\ r1.userLogin = r2.userLogin) => r1 = r2

\* C3: a finished match has exactly one participant with score 11 and the
\* other participant below 11
C3_FinishedScores ==
    \A g \in games :
        g.status = "finished" =>
            /\ Cardinality(Occupants(g.id)) = RoomSlots
            /\ Cardinality({r \in Occupants(g.id) : r.score = ScoreLimit}) = 1
            /\ \A r \in Occupants(g.id) : r.score <= ScoreLimit

\* C4: the score of every slot of every room lies in 0..11
C4_ScoreRange == \A r \in userGames : r.score \in 0..ScoreLimit

\* C5: the status of a room only moves forward along invitation -> waiting
\* -> ongoing -> {finished, abandoned}, and a terminal status never changes
C5_Step ==
    \A g \in games, h \in games' :
        g.id = h.id =>
            /\ StatusRank(h.status) >= StatusRank(g.status)
            /\ g.status \in Terminal => h.status = g.status

C5_Monotonic == [][C5_Step]_vars

\* C6 as stated: at a reconnect within the grace period the player is
\* redirected to the room he left, whose score and ball state equal those
\* at the moment of the disconnect
C6_ReconnectStep ==
    \A p \in Players :
        (Reconnect(p) /\ saved[p].room # NoGame) =>
            \E id \in GameIds :
                /\ id = saved[p].room
                /\ resp' = Reply(p, "redirect", id)
                /\ Snapshot(id)' = saved[p]

C6_Unchanged == [][C6_ReconnectStep]_vars

\* C6 as amended: a reconnect within the grace period redirects the player
\* to the room he left, still ongoing, and neither the disconnect nor the
\* reconnect changes the score or the ball of that room
C6_ResumeStep ==
    \A p \in Players :
        /\ (Reconnect(p) /\ saved[p].room # NoGame) =>
              \E g \in ActiveRooms(p) :
                  /\ g.id = saved[p].room
                  /\ resp' = Reply(p, "redirect", g.id)
                  /\ g \in games'
                  /\ Snapshot(g.id)' = Snapshot(g.id)
        /\ Disconnect(p) =>
              \E g \in ActiveRooms(p) :
                  /\ saved'[p] = Snapshot(g.id)
                  /\ Snapshot(g.id)' = Snapshot(g.id)
                  /\ g \in games'

C6_Resumed == [][C6_ResumeStep]_vars

\* a player back in his room within the grace period, after the room ticked
C6_Witness ==
    /\ resp.msg = "redirect"
    /\ conn[resp.to]
    /\ \E g \in ActiveRooms(resp.to) : g.id = resp.room /\ ball[g.id] # Centre

\* C14: the ticks of the snapshots delivered to an occupant of a room never
\* go backward, also across a disconnect and a reconnect: while the room is
\* played the last tick an occupant has seen only grows, a snapshot delivered
\* carries the tick the room has reached, and no occupant has seen a tick the
\* room has not reached
C14_SeenStep ==
    \A p \in Players : \A g \in ActiveRooms(p) :
        (g \in games') =>
            /\ seen'[p] >= seen[p]
            /\ seen'[p] # seen[p] => (seen'[p] = tick'[g.id] /\ conn[p])

C14_SeenBound ==
    \A p \in Players : \A g \in ActiveRooms(p) : seen[p] <= tick[g.id]

C14_TickOrder == [](C14_SeenBound) /\ [][C14_SeenStep]_vars

\* a player is back in his room after he missed a snapshot: he has seen
\* ticks of the room and the room has ticked on without him
C14_Witness ==
    /\ resp.msg = "redirect"
    /\ conn[resp.to]
    /\ \E g \in ActiveRooms(resp.to) :
         g.id = resp.room /\ 0 < seen[resp.to] /\ seen[resp.to] < tick[g.id]

\* the occupant of slot s of room id, read off the table
OccupantOf(id, s) ==
    LET logins == {r.userLogin : r \in Occupants(id)}
    IN IF s = 1 THEN CHOOSE u \in logins : \A v \in logins : u <= v
                ELSE CHOOSE u \in logins : \A v \in logins : v <= u

\* the slot that scores at the next tick of room id when the input of
\* occupant a is left out
ScorerWithout(id, a) ==
    Scorer(ball[id],
           [s \in 1..RoomSlots |->
               IF OccupantOf(id, s) = a \/ inbox[OccupantOf(id, s)] = NoInput
                 THEN paddle[id][s] ELSE inbox[OccupantOf(id, s)]])

\* C15 as stated: the tick that applies an input of player A leaves both
\* scores as they would have been without that input
C15_ScoreStep ==
    \A id \in GameIds, a \in Players :
        (/\ Cardinality(Occupants(id)) = RoomSlots
         /\ \E r \in Occupants(id) : r.userLogin = a
         /\ inbox[a] # NoInput
         /\ \A r \in Occupants(id) : conn[r.userLogin]
         /\ Tick(id)) =>
            \A s \in 1..RoomSlots :
                ScoreOf(id, OccupantOf(id, s))' =
                    {r.score + (IF ScorerWithout(id, a) = s THEN 1 ELSE 0) :
                        r \in {x \in Occupants(id) : x.userLogin = OccupantOf(id, s)}}

C15_ScoresUnaffected == [][C15_ScoreStep]_vars

\* C15 as amended: a paddleInput changes nothing but the pending input of
\* its sender, and the tick that applies the inputs puts each paddle at the
\* input of its own occupant or leaves it where it was, so an input of A
\* never moves the paddle of the opponent; ball and scores are left alone
\* by the inputs themselves
C15_InputStep ==
    /\ \A p \in Players, pos \in 0..(FieldH + 1) :
          PaddleInput(p, pos) =>
              /\ UNCHANGED <<games, userGames, ball, paddle, tick, seen>>
              /\ \A q \in Players \ {p} : inbox'[q] = inbox[q]
              /\ inbox'[p] = IF pos <= FieldH THEN pos ELSE inbox[p]
    /\ \A id \in GameIds :
          (Tick(id) /\ games' = games) =>
              \A s \in 1..RoomSlots :
                  paddle'[id][s] =
                      IF inbox[OccupantOf(id, s)] = NoInput
                        THEN paddle[id][s] ELSE inbox[OccupantOf(id, s)]

C15_PaddleOnly == [][C15_InputStep]_vars

\* a tick has applied an input that moved the paddle of one slot and left
\* the paddle of the other slot where it was
C15_Witness ==
    \E g \in games :
        /\ g.status = "ongoing"
        /\ tick[g.id] > 0
        /\ paddle[g.id][1] # paddle[g.id][RoomSlots]
        /\ \A r \in Occupants(g.id) : inbox[r.userLogin] = NoInput

\* the room id makes its terminal transition in this step: it was being
\* played, it is over, and the step tells its occupants so
TerminalStep(id) ==
    /\ \E g \in games : g.id = id /\ g.status = "ongoing"
    /\ \E h \in games' : h.id = id /\ h.status \in Terminal
    /\ resp'.room = id
    /\ resp'.msg \in {"gameOver", "ack"}

\* C17: a room makes its terminal transition, with the gameOver message, the
\* recorded result and the teardown, at most once
C17_Step ==
    \A id \in GameIds : TerminalStep(id) => (~ended[id] /\ ended'[id])

Frame(id) ==
    [tick |-> tick[id], ball |-> ball[id], paddle |-> paddle[id],
     score |-> [s \in 1..RoomSlots |->
                  (CHOOSE r \in Occupants(id) : r.userLogin = OccupantOf(id, s)).score]]

\* the snapshot that follows from the room's state, its modifier set and the
\* pending inputs of its occupants, and from nothing else
NextFrame(id) ==
    LET pad == [s \in 1..RoomSlots |->
                   IF inbox[OccupantOf(id, s)] = NoInput
                     THEN paddle[id][s] ELSE inbox[OccupantOf(id, s)]]
        sc == Scorer(ball[id], pad)
        back == sc = 0 /\ (ball[id].x + ball[id].vx < 0 \/ ball[id].x + ball[id].vx > FieldW)
        b1 == BallAfterTick(ball[id], pad)
        mods == {b \in gameMods : b.gameId = id}
    IN [tick |-> tick[id] + 1,
        ball |-> IF mods # {} /\ back THEN [b1 EXCEPT !.vy = -b1.vy] ELSE b1,
        paddle |-> pad,
        score |-> [s \in 1..RoomSlots |-> Frame(id).score[s] + (IF sc = s THEN 1 ELSE 0)]]

\* C19: the tick loop is deterministic: the snapshot a tick emits is a
\* function of the snapshot before it, the modifier set of the room and the
\* inputs received since, so two runs from the same initial state with the
\* same modifier set and inputs emit the same snapshots
C19_Step ==
    \A id \in GameIds :
        (Tick(id) /\ games' = games) => Frame(id)' = NextFrame(id)

C20_Step ==
    /\ \A m \in modifiers, n \in modifiers' : m.id = n.id => m = n
    /\ \A m \in modifiers :
          (\E b \in gameMods, g \in games :
              b.modifierId = m.id /\ b.gameId = g.id /\ g.status \notin Terminal)
            => m \in modifiers'

C20_Immutable == [][C20_Step]_vars

\* C7: no occupant of an ongoing room stays disconnected for the whole
\* grace period; the tick that ends the grace period makes the room
\* abandoned with the connected opponent as the winner; and a reconnect
\* never changes the status of a room
C7_InGrace ==
    \A p \in Players : (~conn[p] /\ ActiveRooms(p) # {}) => grace[p] < GracePeriod

C7_ExpiryStep ==
    \A g \in games, p \in Players, q \in Players :
        /\ (/\ g.status = "ongoing"
            /\ Occupants(g.id) = {r \in userGames : r.gameId = g.id /\ r.userLogin \in {p, q}}
            /\ p # q
            /\ ~conn[p] /\ grace[p] = GracePeriod - 1
            /\ conn[q]
            /\ Tick(g.id)) =>
               /\ \E h \in games' : h.id = g.id /\ h.status = "abandoned"
               /\ ScoreOf(g.id, q)' = {ScoreLimit}
               /\ ScoreOf(g.id, p)' = ScoreOf(g.id, p)
               /\ ScoreLimit \notin ScoreOf(g.id, p)
        /\ Reconnect(p) => games' = games

C7_Abandoned == [](C7_InGrace) /\ [][C7_ExpiryStep]_vars

\* the player comes back too late: the room is abandoned and won by the
\* opponent
C7_Witness ==
    /\ resp.msg = "gameOver"
    /\ \E g \in games :
         /\ g.status = "abandoned"
         /\ resp.to \in {r.userLogin : r \in Occupants(g.id)}
         /\ \E r \in Occupants(g.id) : r.userLogin # resp.to /\ r.score = ScoreLimit
         /\ \E r \in Occupants(g.id) : r.userLogin = resp.to /\ r.score < ScoreLimit

\* ------------------------------------------------- access properties
\* C21: accepting a pending friendship is refused with Forbidden exactly for
\* the requesters who neither have admin clearance nor are the invited user
\* (the receiver of the pending friendship), by the route and by the
\* invited-user guard alike
C21_Step ==
    \A r \in Players, a \in Players, b \in Players :
        ((\E f \in findByBothFriends(a, b) : f.isPending)
            /\ (CanActivateInvited(r, a, b) \/ FriendshipUpdate(r, a, b)))
        => (resp'.msg = "Forbidden"
            <=> ~(clearance[r] >= AdminClearance
                  \/ \E f \in findByBothFriends(a, b) : f.receiver = r))

C21_AdminOrInvited == [][C21_Step]_vars

\* C22: the channel-users guard grants a request only to a requester who has
\* the needed clearance, or is the user of the route, or is a member of the
\* channel of the route, and answers Forbidden to every other requester,
\* whatever the membership of the user of the route
C22_Step ==
    \A n \in {UserClearance, AdminClearance}, r \in Players, u \in Players,
       c \in ChannelNames :
        CanActivateChannelusers(n, r, u, c, TRUE)
        => IF clearance[r] >= n \/ r = u \/ findByUserAndChannel(r, c) # {}
              THEN resp'.msg # "Forbidden"
              ELSE resp'.msg = "Forbidden"

C22_RequesterOnly == [][C22_Step]_vars

\* ------------------------------------------------- block properties
\* C23: for every user L, 'of/L/users' answers with exactly the users who
\* have blocked L, each once, and 'by/L/users' with exactly the users L has
\* blocked
C23_Step ==
    \A l \in Players :
        /\ FindUsersBlockersOf(l)
            => /\ Logins(out') = {k.blockerLogin : k \in {x \in blocks : x.blockedLogin = l}}
               /\ Cardinality(out') = Cardinality(Logins(out'))
        /\ FindUsersBlocksBy(l)
            => Logins(out') = {k.blockedLogin : k \in {x \in blocks : x.blockerLogin = l}}

C23_BlockLists == [][C23_Step]_vars

\* ------------------------------------------------- query properties
\* C24: findByPlayer(login, isRanked) answers with exactly the games that
\* have login among their users and whose ranked flag equals isRanked, for
\* isRanked true and for isRanked false
C24_Step ==
    \A l \in Players, m \in Modes :
        FindByPlayer(l, m)
        => out' = {g \in games : l \in Users(g.id) /\ g.isRanked = m}

C24_ByPlayer == [][C24_Step]_vars

\* the games the claim has findPlayable(l) answer with, read off the rows
Playable(l) ==
    {g \in games :
        /\ g.status = "waiting" \/ g.status = "invitation"
        /\ \/ \E r \in userGames : r.gameId = g.id /\ r.userLogin = l
           \/ g.invitee = l
           \/ (Cardinality(Occupants(g.id)) <= 1 /\ g.status = "waiting")}

\* C25 as stated: findPlayable(l) answers with exactly these games, no
\* invitation game in the answer for a user who is neither in it nor its
\* invitee, and no waiting game with two users in the answer for a third
\* user
C25_LiteralStep ==
    \A l \in Players :
        FindPlayable(l)
        => /\ out' = Playable(l)
           /\ \A g \in out' :
                 /\ g.status = "invitation"
                      => (l \in Users(g.id) \/ g.invitee = l)
                 /\ (g.status = "waiting" /\ Cardinality(Users(g.id)) = 2)
                      => l \in Users(g.id)

C25_ThirdUser == [][C25_LiteralStep]_vars

\* C25: findPlayable(l) answers with exactly the games of status 'waiting'
\* or 'invitation' in which l takes part, or whose invitee is l, or that have
\* a free slot and are no invitation; an invitation game is in the answer
\* only for its users and its invitee, and a waiting game with two users
\* only for its users and for the invitee its row names
C25_Step ==
    \A l \in Players :
        FindPlayable(l)
        => /\ out' = Playable(l)
           /\ \A g \in out' :
                 /\ g.status = "invitation"
                      => (l \in Users(g.id) \/ g.invitee = l)
                 /\ (g.status = "waiting" /\ Cardinality(Users(g.id)) = 2)
                      => (l \in Users(g.id) \/ g.invitee = l)

C25_Playable == [][C25_Step]_vars

\* findPlayable has answered the invitee of a waiting game that two other
\* users occupy
C25_Witness ==
    /\ resp.msg = "findPlayable"
    /\ \E g \in out :
          /\ g \in games
          /\ g.status = "waiting"
          /\ Cardinality(Users(g.id)) = 2
          /\ g.invitee = resp.to
          /\ resp.to \notin Users(g.id)

\* ------------------------------------------------- channel properties
\* C26: an update of the password of an existing public channel succeeds
\* when no channel uses the password and is answered Conflict only when some
\* channel uses it; a private channel is answered Forbidden, a missing one
\* NotFound, and an update that is refused changes no channel
C26_Step ==
    \A n \in ChannelNameInputs, pw \in PasswordInputs :
        ChannelUpdate(n, pw)
        => /\ findByName(n) = {} => resp'.msg = "NotFound"
           /\ (\E c \in findByName(n) : c.isPrivate) => resp'.msg = "Forbidden"
           /\ (\E c \in findByName(n) : ~c.isPrivate)
                => /\ findByPassword(pw) = {}
                      => (resp'.msg = "OK" /\ \A c \in findByName(n) :
                                                 [c EXCEPT !.password = pw] \in channels')
                   /\ resp'.msg = "Conflict" => findByPassword(pw) # {}
           /\ resp'.msg # "OK" => channels' = channels

C26_PasswordUpdate == [][C26_Step]_vars

\* ------------------------------------------------- client properties
\* C27: no joinWaitRoom is emitted once startGame has been received, once
\* quitWaitRoom has been acknowledged with 200, or once the component is
\* unmounted, and at most one polling timer is active at a time
C27_Step ==
    \A t \in 1..MaxTimers :
        TimerFire(t) => (mounted /\ ~hasFoundGame /\ ~mustGoHome)

C27_OneTimer == Cardinality(timers) <= 1

C27_PollingStops == [](C27_OneTimer) /\ [][C27_Step]_vars

\* ------------------------------------------------- chat properties
\* C28: the message of a channel member who is not banned is refused as
\* muted exactly while one of his mutes in the channel has its end in the
\* future, which is also when the client disables sending
C28_Step ==
    \A t \in ContentInputs, u \in Players, c \in ChannelNames :
        (MessageCreate(t, u, c)
            /\ findByUserAndChannel(u, c) # {}
            /\ banFindByLoginAndChannel(u, c) = {})
        => /\ resp'.msg = "Muted"
                <=> \E m \in muteFindByLoginAndChannel(u, c) : m.end > now
           /\ resp'.msg = "Muted" <=> ~CanSendMessage(u, c)

C28_MutedWhileActive == [][C28_Step]_vars

\* C29: whatever block creations and deletions ran, two creations of the
\* same pair at the same time included, no user blocks himself and no
\* ordered pair (blocker, blocked) has two blocks; a creation for a pair
\* that has a block adds nothing, and the deletion of a missing block is
\* answered Not Found and changes nothing
C29_Table ==
    /\ \A k \in blocks : k.blockerLogin # k.blockedLogin
    /\ \A a \in Players, b \in Players : Cardinality(findBlockByBothLogin(a, b)) <= 1

C29_Step ==
    /\ \A r \in ReqIds, a \in Players, b \in Players :
          (BlockPostCheck(r, a, b) /\ findBlockByBothLogin(a, b) # {})
          => blocks' = blocks /\ blkReq' = blkReq
    /\ \A a \in Players, b \in Players :
          (BlockDeleteReq(a, b) /\ findBlockByBothLogin(a, b) = {})
          => blocks' = blocks /\ resp'.msg = "NotFound"

C29_BlockTable == [](C29_Table) /\ [][C29_Step]_vars

\* C30: a ban is created only by a member of the channel who is its admin
\* or its owner, on a member who has no ban in the channel, and never on an
\* admin or on the owner of the channel unless the requester is the owner;
\* no (user, channel) ever has two bans
C30_Table ==
    \A u \in Players, c \in ChannelNames : Cardinality(banFindByLoginAndChannel(u, c)) <= 1

C30_Step ==
    \A me \in Players, u \in Players, c \in ChannelNames :
        (BanCreate(me, u, c) /\ bans' # bans)
        => /\ \E m \in findByUserAndChannel(me, c) : m.isAdmin \/ isOwner(me, c)
           /\ findByUserAndChannel(u, c) # {}
           /\ banFindByLoginAndChannel(u, c) = {}
           /\ ~isOwner(me, c)
                => /\ \A m \in findByUserAndChannel(u, c) : ~m.isAdmin
                   /\ ~isOwner(u, c)

C30_BanRules == [](C30_Table) /\ [][C30_Step]_vars

====
